---------------------------- MODULE Spec2Model ----------------------------
(***************************************************************************)
(* A model of the icon-cache crate: a zero-copy decoder for the GTK icon   *)
(* theme cache.  The buffer is a sequence of bytes; every multi-byte       *)
(* integer in it is big-endian.  A u32 is kept as a pair <<hi, lo>> of its *)
(* two 16-bit halves, so that all 2^32 values (0xFFFFFFFF included) and    *)
(* 32-bit wraparound are exact.                                            *)
(*                                                                         *)
(* A Rust panic (slice start beyond the buffer, index beyond a slice,      *)
(* remainder by zero) is the outcome "Panic": the operation is aborted.    *)
(***************************************************************************)
EXTENDS Integers, Sequences, FiniteSets, TLC

VARIABLES
    bytes,   \* IconCache::bytes, the immutable buffer (Seq of 0..255)
    cache,   \* outcome of IconCache::new_from_bytes and the views it holds
    call,    \* the operation in progress or just finished, with its result
    key,     \* argument of icon_str_hash (hash specification)
    hash     \* value icon_str_hash returned for key

vars == <<bytes, cache, call, key, hash>>

---------------------------------------------------------------------------
(* 32-bit unsigned arithmetic on pairs <<hi, lo>>, each half in 0..65535.  *)

Half == 2 ^ 16

HalfMax == Half - 1

U32Zero == <<0, 0>>

\* 0xFFFFFFFF
U32Max == <<HalfMax, HalfMax>>

U32Of(n) == <<n \div Half, n % Half>>

U32Less(a, b) == a[1] < b[1] \/ (a[1] = b[1] /\ a[2] < b[2])

\* u32::overflowing_add(..).0
WrappingAdd(a, b) ==
    LET lo == a[2] + b[2]
        hi == a[1] + b[1] + (lo \div Half)
    IN  <<hi % Half, lo % Half>>

\* u32::overflowing_sub(..).0
WrappingSub(a, b) ==
    LET borrow == IF a[2] < b[2] THEN 1 ELSE 0
        lo == a[2] - b[2] + borrow * Half
        hi == a[1] - b[1] - borrow
    IN  <<hi % Half, lo>>

\* a shift by 4 where the hash shifts by 5: h * 15 + p instead of h * 31 + p
Shl4(a) == <<(a[1] * 16 + (a[2] * 16) \div Half) % Half, (a[2] * 16) % Half>>

\* h << 5 on a u32: the bits shifted past bit 31 are dropped
Shl5(a) == <<(a[1] * 32 + (a[2] * 32) \div Half) % Half, (a[2] * 32) % Half>>

\* a * 2 + bit on a value below 2^31 (one step of the long division)
ShiftIn(a, bit) == <<(a[1] * 2 + (a[2] * 2) \div Half) % Half, (a[2] * 2 + bit) % Half>>

\* bit i (0 = least significant) of a u32
BitOf(a, i) ==
    IF i >= 16 THEN (a[1] \div (2 ^ (i - 16))) % 2 ELSE (a[2] \div (2 ^ i)) % 2

RECURSIVE RemBits(_, _, _, _)
\* restoring long division: remainder of the top bits of a by n, n < 2^31
RemBits(a, n, i, r) ==
    IF i < 0 THEN r
    ELSE LET r2 == ShiftIn(r, BitOf(a, i))
         IN  IF U32Less(r2, n) THEN RemBits(a, n, i - 1, r2)
             ELSE RemBits(a, n, i - 1, WrappingSub(r2, n))

\* a % n on u32, n # 0 (the caller decides what n = 0 does)
U32Rem(a, n) ==
    IF U32Less(a, n) THEN a
    ELSE IF n[1] >= Half \div 2 THEN WrappingSub(a, n)
    ELSE RemBits(a, n, 31, U32Zero)

---------------------------------------------------------------------------
(* icon_str_hash, lib.rs 246-259 *)

RECURSIVE HashLoop(_, _, _)
\* for &p in &bytes[1..] { h = (h << 5) - h + p }, from index i
HashLoop(k, i, h) ==
    IF i > Len(k) THEN h
    ELSE HashLoop(k, i + 1,
                  WrappingAdd(WrappingSub(Shl5(h), h), U32Of(k[i])))

icon_str_hash(k) ==
    IF Len(k) = 0 THEN U32Zero
    ELSE HashLoop(k, 2, U32Of(k[1]))

---------------------------------------------------------------------------
(* Reading the buffer.  Offsets into the buffer are zero-based; bytes is a *)
(* one-based sequence, so the byte at offset o is bytes[o + 1].            *)

\* zerocopy network_endian::U16::get
U16At(b, o) == b[o + 1] * 256 + b[o + 2]

\* zerocopy network_endian::U32::get
U32At(b, o) == <<U16At(b, o), U16At(b, o + 2)>>

\* is_null that knows only the 0 sentinel
is_null_zero_only(v) == v = U32Zero

\* Offset::is_null
is_null(v) == v = U32Zero \/ v = U32Max

\* `offset as usize` fits the model's integers (it is below 2^31)
Small(v) == v[1] < Half \div 2

ToNat(v) == v[1] * Half + v[2]

\* &bytes[offset..] : panics when offset > bytes.len()
SliceFrom(b, v) ==
    IF Small(v) /\ ToNat(v) <= Len(b)
    THEN [tag |-> "Ok", off |-> ToNat(v)]
    ELSE [tag |-> "Panic", off |-> 0]

\* slice[index as usize] on a slice of n elements: panics when index >= n
IndexOk(v, n) == Small(v) /\ ToNat(v) < n

Ok(o, n) == [tag |-> "Ok", off |-> o, len |-> n]

Err == [tag |-> "Err", off |-> 0, len |-> 0]

Panic == [tag |-> "Panic", off |-> 0, len |-> 0]

\* T::try_ref_from_prefix on the bytes from offset o.  A sized T needs its
\* size; a T ending in a slice needs its prefix and takes as many elements
\* as the rest of the buffer holds (the count stored in the record is not
\* read).  Every T here has alignment 1 and accepts any bytes.
try_ref_from_prefix(b, o, layout) ==
    LET rest == Len(b) - o
    IN  IF rest < layout.min THEN Err
        ELSE IF layout.elem = 0 THEN Ok(o, 0)
        ELSE Ok(o, (rest - layout.min) \div layout.elem)

\* Offset::at
at(b, v, layout) ==
    LET s == SliceFrom(b, v)
    IN  IF s.tag = "Panic" THEN Panic
        ELSE try_ref_from_prefix(b, s.off, layout)

\* record shapes of raw.rs: min is the fixed part, elem the size of one
\* element of the trailing slice (0: no trailing slice)
HeaderLayout == [min |-> 12, elem |-> 0]

HashLayout == [min |-> 4, elem |-> 4]

DirectoryListLayout == [min |-> 4, elem |-> 4]

IconLayout == [min |-> 12, elem |-> 0]

ImageListLayout == [min |-> 4, elem |-> 8]

ImageDataLayout == [min |-> 16, elem |-> 0]

MetaDataLayout == [min |-> 12, elem |-> 0]

UnitLayout == [min |-> 0, elem |-> 0]

RECURSIVE NulAt(_, _)
\* offset of the first nul byte at or after o, or Len(b) when there is none
NulAt(b, o) ==
    IF o >= Len(b) THEN Len(b)
    ELSE IF b[o + 1] = 0 THEN o
    ELSE NulAt(b, o + 1)

\* CStr::from_bytes_until_nul on the bytes from offset o; .to_bytes() is
\* the bytes before the nul
from_bytes_until_nul(b, o) ==
    LET n == NulAt(b, o)
    IN  IF n >= Len(b) THEN [tag |-> "Err", off |-> o, str |-> <<>>]
        ELSE [tag |-> "Ok", off |-> o, str |-> SubSeq(b, o + 1, n)]

\* Offset::str_at
str_at(b, v) ==
    LET s == SliceFrom(b, v)
    IN  IF s.tag = "Panic" THEN [tag |-> "Panic", off |-> 0, str |-> <<>>]
        ELSE from_bytes_until_nul(b, s.off)

Cont(x) == x >= 128 /\ x <= 191

RECURSIVE ValidUtf8(_, _)
\* CStr::to_str: core::str::from_utf8 succeeds on s from index i
ValidUtf8(s, i) ==
    IF i > Len(s) THEN TRUE
    ELSE LET x == s[i]
             c1 == i + 1 <= Len(s) /\ Cont(s[i + 1])
             c2 == i + 2 <= Len(s) /\ Cont(s[i + 2])
             c3 == i + 3 <= Len(s) /\ Cont(s[i + 3])
         IN  IF x < 128 THEN ValidUtf8(s, i + 1)
             ELSE IF x >= 194 /\ x <= 223 THEN c1 /\ ValidUtf8(s, i + 2)
             ELSE IF x = 224 THEN c1 /\ s[i + 1] >= 160 /\ c2 /\ ValidUtf8(s, i + 3)
             ELSE IF x = 237 THEN c1 /\ s[i + 1] <= 159 /\ c2 /\ ValidUtf8(s, i + 3)
             ELSE IF x >= 225 /\ x <= 239 THEN c1 /\ c2 /\ ValidUtf8(s, i + 3)
             ELSE IF x = 240 THEN c1 /\ s[i + 1] >= 144 /\ c2 /\ c3 /\ ValidUtf8(s, i + 4)
             ELSE IF x = 244 THEN c1 /\ s[i + 1] <= 143 /\ c2 /\ c3 /\ ValidUtf8(s, i + 4)
             ELSE IF x >= 241 /\ x <= 243 THEN c1 /\ c2 /\ c3 /\ ValidUtf8(s, i + 4)
             ELSE FALSE

\* Offset::path_at : Option<&Path>, None when there is no nul terminator or
\* the bytes are not UTF-8
path_at(b, v) ==
    LET c == str_at(b, v)
    IN  IF c.tag = "Panic" THEN c
        ELSE IF c.tag = "Err" \/ ~ValidUtf8(c.str, 1)
             THEN [tag |-> "None", off |-> c.off, str |-> <<>>]
        ELSE [tag |-> "Some", off |-> c.off, str |-> c.str]

---------------------------------------------------------------------------
(* The buffers.  SampleCache is a small well-formed cache laid out like    *)
(* the crate's test fixture.  The model starts from a sample, from a sample *)
(* with one of its 32-bit fields overwritten, or from the sample cut short.*)

\* longest icon name looked up
MaxNameLen == 2

\* most icons IconCache::iter is followed for
MaxYield == 6

\* longest key hashed in the hash specification
MaxKeyLen == 7

Be16(n) == <<n \div 256, n % 256>>

Be32(v) == Be16(v[1]) \o Be16(v[2])

HashAt == 12

Icon0At == 24

Icon1At == 36

Icon2At == 48

NameBAt == 60

NameEmptyAt == 61

NameAAAt == 62

NameAAt == 63

ListAAt == 65

ListBAt == 85

DirListAt == 89

DirAt == 97

ImageDataAt == 99

MetaDataAt == 115

BadPathAt == 127

TailHashAt == 129

SampleLen == 137

HAS_SUFFIX_SVG == 2

HAS_SUFFIX_PNG == 4

SampleCache ==
    \* Header: major 1, minor 0, hash, directory_list
       Be16(1) \o Be16(0) \o Be32(U32Of(HashAt)) \o Be32(U32Of(DirListAt))
    \* Hash: n_buckets, icon[0], icon[1]
    \o Be32(U32Of(2)) \o Be32(U32Of(Icon0At)) \o Be32(U32Of(Icon1At))
    \* Icon 0: "b", chained to icon 2
    \o Be32(U32Of(Icon2At)) \o Be32(U32Of(NameBAt)) \o Be32(U32Of(ListAAt))
    \* Icon 1: "a", last of its chain
    \o Be32(U32Max) \o Be32(U32Of(NameAAt)) \o Be32(U32Of(ListAAt))
    \* Icon 2: "aa", last of its chain
    \o Be32(U32Max) \o Be32(U32Of(NameAAAt)) \o Be32(U32Of(ListBAt))
    \* names: "b", "aa" (and "a", "" inside them)
    \o <<98, 0, 97, 97, 0>>
    \* ImageList A: two images, the second with image data
    \o Be32(U32Of(2))
    \o Be16(0) \o Be16(HAS_SUFFIX_SVG) \o Be32(U32Zero)
    \o Be16(0) \o Be16(HAS_SUFFIX_PNG) \o Be32(U32Of(ImageDataAt))
    \* ImageList B: no image
    \o Be32(U32Zero)
    \* DirectoryList: one directory, "d"
    \o Be32(U32Of(1)) \o Be32(U32Of(DirAt))
    \o <<100, 0>>
    \* ImageData: pixel data, meta data, pixel data type, pixel data length
    \o Be32(U32Of(ImageDataAt)) \o Be32(U32Of(MetaDataAt))
    \o Be32(U32Of(ImageDataAt)) \o Be32(U32Of(ImageDataAt))
    \* MetaData: embedded_rect, attach_point_list, display_name_list
    \o Be32(U32Zero) \o Be32(U32Zero) \o Be32(U32Zero)
    \* a path that is not UTF-8
    \o <<255, 0>>
    \* a hash table of two buckets with room for one slot, which is empty;
    \* its last bytes are also a string without nul terminator
    \o Be32(U32Of(2)) \o Be32(U32Max)

\* the values a corrupted offset field takes: the null sentinels, the end
\* of the buffer, one past it, and places too close to the end for a
\* 4-byte or a 12-byte record
BadOffsets ==
    {U32Zero, U32Max, U32Of(SampleLen), U32Of(SampleLen + 1),
     U32Of(SampleLen - 3), U32Of(SampleLen - 11)}

IconOffsets == {U32Of(Icon0At), U32Of(Icon1At), U32Of(Icon2At)}

NameOffsets ==
    {U32Of(NameBAt), U32Of(NameEmptyAt), U32Of(NameAAAt), U32Of(NameAAt),
     U32Of(SampleLen - 1)}

Field(pos, vals) == {[pos |-> pos, val |-> v] : v \in vals}

\* every single-field overwrite of the sample
Patches ==
         Field(0, {<<1, 1>>, <<2, 0>>, <<0, 0>>})
    \cup Field(4, BadOffsets \cup {U32Of(TailHashAt)})
    \cup Field(8, BadOffsets \cup {U32Of(SampleLen - 4)})
    \cup Field(HashAt, {U32Zero, U32Of(1), U32Of(3), U32Max})
    \cup UNION {Field(HashAt + 4 + 4 * i, BadOffsets \cup IconOffsets) : i \in 0..1}
    \cup UNION {Field(a, BadOffsets \cup IconOffsets) : a \in {Icon0At, Icon1At, Icon2At}}
    \cup UNION {Field(a + 4, BadOffsets \cup NameOffsets) : a \in {Icon0At, Icon1At, Icon2At}}
    \cup UNION {Field(a + 8, BadOffsets \cup {U32Of(ListAAt), U32Of(ListBAt)}) :
                    a \in {Icon0At, Icon1At, Icon2At}}
    \cup Field(ListAAt, {U32Zero, U32Of(1), U32Of(3), U32Max})
    \cup Field(ListAAt + 4, {<<1, HAS_SUFFIX_SVG>>, <<2, HAS_SUFFIX_SVG>>, <<HalfMax, 0>>})
    \cup Field(ListAAt + 8, BadOffsets \cup {U32Of(ImageDataAt)})
    \cup Field(ListAAt + 16, BadOffsets)
    \cup Field(DirListAt, {U32Zero, U32Of(2), U32Max})
    \cup Field(DirListAt + 4, BadOffsets \cup {U32Of(BadPathAt), U32Of(SampleLen - 1)})
    \cup UNION {Field(ImageDataAt + 4 * i, BadOffsets) : i \in 0..3}

\* b with the 4 bytes at offset p.pos replaced by p.val
Patch(b, p) ==
    [i \in 1..Len(b) |->
        IF i > p.pos /\ i <= p.pos + 4 THEN Be32(p.val)[i - p.pos] ELSE b[i]]

\* lengths the sample is cut to: nothing, less than a header, a bare
\* header, a header and a bucket count
Truncations == {0, 11, 12, 16}

\* the sample with icon 2 named "b" like icon 0, the head of its chain
DuplicateNames == Patch(SampleCache, [pos |-> Icon2At + 4, val |-> U32Of(NameBAt)])

\* the sample with icon 2 chained to icon 1: bucket 0 holds icons 0, 2, 1
LongChain == Patch(SampleCache, [pos |-> Icon2At, val |-> U32Of(Icon1At)])

Samples == {SampleCache, DuplicateNames, LongChain}

Buffers ==
    Samples
    \cup {Patch(s, p) : s \in Samples, p \in Patches}
    \cup {SubSeq(SampleCache, 1, n) : n \in Truncations}

---------------------------------------------------------------------------
(* IconCache, lib.rs *)

None == [some |-> FALSE]

Some(x) == [some |-> TRUE, v |-> x]

Unparsed == [state |-> "Unparsed", hash |-> Err, directory_list |-> Err]

\* IconCache::new_from_bytes: each `?` returns the error, a panic unwinds
new_from_bytes(b) ==
    LET header == try_ref_from_prefix(b, 0, HeaderLayout)
        h == at(b, U32At(b, 4), HashLayout)
        d == at(b, U32At(b, 8), DirectoryListLayout)
        failed(t) == [state |-> t, hash |-> Err, directory_list |-> Err]
    IN  IF header.tag # "Ok" THEN failed("Err")
        ELSE IF h.tag # "Ok" THEN failed(h.tag)
        ELSE IF d.tag # "Ok" THEN failed(d.tag)
        ELSE [state |-> "Ok", hash |-> h, directory_list |-> d]

\* self.hash.n_buckets.get()
n_buckets(b, c) == U32At(b, c.hash.off)

\* address of self.hash.icon[i]
SlotAt(c, i) == c.hash.off + 4 + 4 * i

\* IconCache::icon_chain: the Icon a bucket starts with
icon_chain(b, c, bucket) ==
    IF ~IndexOk(bucket, c.hash.len) THEN Panic
    ELSE LET offset == U32At(b, SlotAt(c, ToNat(bucket)))
         IN  IF is_null(offset) THEN [tag |-> "None", off |-> 0, len |-> 0]
             ELSE LET r == at(b, offset, IconLayout)
                  IN  IF r.tag = "Err" THEN [tag |-> "None", off |-> 0, len |-> 0]
                      ELSE r

\* one call of the closure of raw::Icon::iter whose state is `icon`:
\* the item it returns and the state it leaves
IconIterNext(b, icon) ==
    IF ~icon.some THEN [tag |-> "None", item |-> 0, icon |-> None]
    ELSE LET chain == U32At(b, icon.v)
             r == at(b, chain, IconLayout)
         IN  IF is_null(chain) THEN [tag |-> "Some", item |-> icon.v, icon |-> None]
             ELSE IF r.tag = "Panic" THEN [tag |-> "Panic", item |-> 0, icon |-> None]
             ELSE [tag |-> "Some", item |-> icon.v,
                   icon |-> IF r.tag = "Ok" THEN Some(r.off) ELSE None]

\* icon.name.str_at(self.bytes)
IconName(b, icon) == str_at(b, U32At(b, icon + 4))

\* ImageList::from_icon
from_icon(b, icon) == at(b, U32At(b, icon + 8), ImageListLayout)

\* a comparison of the first bytes only, as strncmp over the query's length
NameStartsWith(name, icon_name) ==
    Len(name) >= Len(icon_name) /\ SubSeq(name, 1, Len(icon_name)) = icon_name

\* name.to_bytes() == icon_name
NameMatches(name, icon_name) == name = icon_name

\* the Icon view built for a raw icon: its name is expected to resolve
\* Panic, None (an image list that does not resolve) or Some(Icon)
IconView(b, icon) ==
    LET name == IconName(b, icon)
        l == from_icon(b, icon)
    IN  IF l.tag = "Panic" THEN [tag |-> "Panic", ret |-> None]
        ELSE IF l.tag = "Err" THEN [tag |-> "None", ret |-> None]
        ELSE [tag |-> "Some",
              ret |-> Some([name |-> name.str, name_off |-> name.off,
                            image_list |-> [off |-> l.off, len |-> l.len]])]

Idle ==
    [op |-> "none", pc |-> "idle", name |-> <<>>, idx |-> U32Zero,
     bucket |-> None, icon |-> None, visited |-> {}, ret |-> None,
     yielded |-> <<>>]

\* IconCache::icon up to the loop: hash, bucket, icon_chain(bucket)?.iter()
icon_begin(b, c, icon_name) ==
    LET fresh == [Idle EXCEPT !.op = "icon", !.name = icon_name]
        n == n_buckets(b, c)
        bucket == U32Rem(icon_str_hash(icon_name), n)
        chain == icon_chain(b, c, bucket)
    IN  IF n = U32Zero THEN [fresh EXCEPT !.pc = "panic"]
        ELSE IF chain.tag = "Panic"
             THEN [fresh EXCEPT !.pc = "panic", !.bucket = Some(bucket)]
        ELSE IF chain.tag = "None"
             THEN [fresh EXCEPT !.pc = "done", !.bucket = Some(bucket)]
        ELSE [fresh EXCEPT !.pc = "walking", !.bucket = Some(bucket),
                           !.icon = Some(chain.off)]

\* one turn of `for icon in icons` in IconCache::icon; visited collects the
\* icons the loop has been given
icon_step(b, cl) ==
    LET it == IconIterNext(b, cl.icon)
        name == IconName(b, it.item)
        view == IconView(b, it.item)
        seen == [cl EXCEPT !.icon = it.icon, !.visited = @ \cup {it.item}]
    IN  IF it.tag = "Panic" THEN [cl EXCEPT !.pc = "panic"]
        ELSE IF it.tag = "None" THEN [cl EXCEPT !.pc = "done", !.ret = None]
        ELSE IF name.tag = "Panic" THEN [seen EXCEPT !.pc = "panic"]
        ELSE IF name.tag = "Err" THEN seen
        ELSE IF ~NameMatches(name.str, cl.name) THEN seen
        ELSE IF view.tag = "Panic" THEN [seen EXCEPT !.pc = "panic"]
        ELSE [seen EXCEPT !.pc = "done", !.ret = view.ret]

\* one step of the iterator IconCache::iter returns: with no chain in hand
\* the next bucket of 0..n_buckets (cl.bucket) is taken, otherwise the chain
\* gives its next icon, which the last filter_map turns into an Icon or drops
iter_step(b, c, cl) ==
    LET bucket == cl.bucket.v
        next == Some(WrappingAdd(bucket, U32Of(1)))
        chain == icon_chain(b, c, bucket)
        it == IconIterNext(b, cl.icon)
        name == IconName(b, it.item)
        view == IconView(b, it.item)
    IN  IF ~cl.icon.some
        THEN IF ~U32Less(bucket, n_buckets(b, c)) THEN [cl EXCEPT !.pc = "done"]
             ELSE IF chain.tag = "Panic" THEN [cl EXCEPT !.pc = "panic"]
             ELSE IF chain.tag = "None" THEN [cl EXCEPT !.bucket = next]
             ELSE [cl EXCEPT !.bucket = next, !.icon = Some(chain.off)]
        ELSE IF it.tag = "Panic" THEN [cl EXCEPT !.pc = "panic"]
        ELSE IF name.tag = "Panic" THEN [cl EXCEPT !.pc = "panic", !.icon = it.icon]
        ELSE IF name.tag = "Err" THEN [cl EXCEPT !.icon = it.icon]
        ELSE IF view.tag = "Panic" THEN [cl EXCEPT !.pc = "panic", !.icon = it.icon]
        ELSE IF view.tag = "None" THEN [cl EXCEPT !.icon = it.icon]
        ELSE [cl EXCEPT !.icon = it.icon, !.yielded = Append(@, view.ret.v)]

\* DirectoryList::dir
dir(b, c, idx) ==
    LET list == c.directory_list
    IN  IF ~U32Less(idx, U32At(b, list.off)) THEN [tag |-> "None", off |-> 0, str |-> <<>>]
        ELSE IF ~IndexOk(idx, list.len) THEN [tag |-> "Panic", off |-> 0, str |-> <<>>]
        ELSE path_at(b, U32At(b, list.off + 4 + 4 * ToNat(idx)))

\* the image_data of ImageList::image for a non-zero offset: the fields of
\* raw::ImageData resolved in the order the struct literal lists them
image_data(b, v) ==
    LET d == at(b, v, ImageDataLayout)
        pixel == at(b, U32At(b, d.off), UnitLayout)
        meta == at(b, U32At(b, d.off + 4), MetaDataLayout)
        type == at(b, U32At(b, d.off + 8), UnitLayout)
        length == at(b, U32At(b, d.off + 12), UnitLayout)
    IN  IF d.tag # "Ok" THEN d
        ELSE IF pixel.tag = "Panic" THEN Panic
        ELSE IF meta.tag # "Ok" THEN meta
        ELSE IF type.tag = "Panic" \/ length.tag = "Panic" THEN Panic
        ELSE Ok(meta.off, 0)

\* ImageList::image on the list an Icon holds
image(b, list, idx) ==
    LET raw_image == list.off + 4 + 8 * ToNat(idx)
        header == try_ref_from_prefix(b, 0, HeaderLayout)
        directory_list == at(b, U32At(b, 8), DirectoryListLayout)
        directory_index == U32Of(U16At(b, raw_image))
        directory == path_at(b, U32At(b, directory_list.off + 4 + 4 * ToNat(directory_index)))
        data == image_data(b, U32At(b, raw_image + 4))
        none == [tag |-> "None", ret |-> None]
        panic == [tag |-> "Panic", ret |-> None]
        some(d) == [tag |-> "Some",
                    ret |-> Some([directory |-> directory.str,
                                  icon_flags |-> U16At(b, raw_image + 2),
                                  image_data |-> d])]
    IN  IF ~U32Less(idx, U32At(b, list.off)) THEN none
        ELSE IF ~IndexOk(idx, list.len) THEN panic
        ELSE IF header.tag # "Ok" THEN none
        ELSE IF directory_list.tag = "Panic" THEN panic
        ELSE IF directory_list.tag = "Err" THEN none
        ELSE IF ~IndexOk(directory_index, directory_list.len) THEN panic
        ELSE IF directory.tag = "Panic" THEN panic
        ELSE IF directory.tag = "None" THEN none
        ELSE IF U32At(b, raw_image + 4) = U32Zero THEN some(None)
        ELSE IF data.tag = "Panic" THEN panic
        ELSE IF data.tag = "Err" THEN none
        ELSE some(Some([image_meta_data |-> data.off]))

---------------------------------------------------------------------------
(* The state machine: a buffer is parsed once, then operations are called  *)
(* on the cache one at a time.  A lookup and an iteration advance one      *)
(* chain link per step.                                                    *)

\* the byte strings looked up: all strings of 'a' and 'b' up to MaxNameLen
RECURSIVE Strings(_, _)
Strings(alphabet, n) ==
    IF n = 0 THEN {<<>>}
    ELSE LET shorter == Strings(alphabet, n - 1)
         IN  shorter \cup {Append(s, x) : s \in shorter, x \in alphabet}

Names == Strings({97, 98}, MaxNameLen)

\* the indexes dir and image are called with
Indexes == {U32Of(0), U32Of(1), U32Of(2), U32Max}

Busy == call.pc = "walking"

Init ==
    /\ bytes \in Buffers
    /\ cache = Unparsed
    /\ call = Idle
    /\ key = <<>>
    /\ hash = U32Zero

Parse ==
    /\ cache.state = "Unparsed"
    /\ cache' = new_from_bytes(bytes)
    /\ UNCHANGED <<bytes, call, key, hash>>

IconCall ==
    /\ cache.state = "Ok"
    /\ ~Busy
    /\ \E icon_name \in Names : call' = icon_begin(bytes, cache, icon_name)
    /\ UNCHANGED <<bytes, cache, key, hash>>

IconStep ==
    /\ call.op = "icon"
    /\ Busy
    /\ call' = icon_step(bytes, call)
    /\ UNCHANGED <<bytes, cache, key, hash>>

IterCall ==
    /\ cache.state = "Ok"
    /\ ~Busy
    /\ call' = [Idle EXCEPT !.op = "iter", !.pc = "walking", !.bucket = Some(U32Zero)]
    /\ UNCHANGED <<bytes, cache, key, hash>>

IterStep ==
    /\ call.op = "iter"
    /\ Busy
    /\ Len(call.yielded) < MaxYield
    /\ call' = iter_step(bytes, cache, call)
    /\ UNCHANGED <<bytes, cache, key, hash>>

DirCall ==
    /\ cache.state = "Ok"
    /\ ~Busy
    /\ \E idx \in Indexes :
        LET r == dir(bytes, cache, idx)
        IN  call' = [Idle EXCEPT !.op = "dir", !.idx = idx,
                        !.pc = IF r.tag = "Panic" THEN "panic" ELSE "done",
                        !.ret = IF r.tag = "Some" THEN Some(r.str) ELSE None]
    /\ UNCHANGED <<bytes, cache, key, hash>>

\* image is called on the image list of the Icon a lookup returned
ImageCall ==
    /\ call.op = "icon"
    /\ call.pc = "done"
    /\ call.ret.some
    /\ \E idx \in Indexes :
        LET r == image(bytes, call.ret.v.image_list, idx)
        IN  call' = [Idle EXCEPT !.op = "image", !.idx = idx, !.name = call.name,
                        !.pc = IF r.tag = "Panic" THEN "panic" ELSE "done",
                        !.ret = r.ret]
    /\ UNCHANGED <<bytes, cache, key, hash>>

Next ==
    \/ Parse
    \/ IconCall
    \/ IconStep
    \/ IterCall
    \/ IterStep
    \/ DirCall
    \/ ImageCall

Spec == Init /\ [][Next]_vars

---------------------------------------------------------------------------
(* The hash specification: icon_str_hash applied to keys grown a byte at a *)
(* time, and to "hello world" as in tests::icon_str_hash_hello_world.      *)

KeyBytes == {0, 104, 255}

HelloWorld == <<104, 101, 108, 108, 111, 32, 119, 111, 114, 108, 100>>

HashInit ==
    /\ bytes = SampleCache
    /\ cache = Unparsed
    /\ call = Idle
    /\ key = <<>>
    /\ hash = icon_str_hash(<<>>)

HashKey ==
    /\ Len(key) < MaxKeyLen
    /\ \E p \in KeyBytes : key' = Append(key, p)
    /\ hash' = icon_str_hash(key')
    /\ UNCHANGED <<bytes, cache, call>>

HashHelloWorld ==
    /\ key' = HelloWorld
    /\ hash' = icon_str_hash(key')
    /\ UNCHANGED <<bytes, cache, call>>

HashNext ==
    \/ HashKey
    \/ HashHelloWorld

HashSpec == HashInit /\ [][HashNext]_vars

---------------------------------------------------------------------------
(* Properties of the hash (checked under HashSpec).                        *)

Front(k) == SubSeq(k, 1, Len(k) - 1)

\* (a * 31 + p) mod 2^32 by multiplication of the halves
Times31Plus(a, p) ==
    LET lo == a[2] * 31 + p
        hi == a[1] * 31 + (lo \div Half)
    IN  <<hi % Half, lo % Half>>

\* C7: icon_hash("") = 0; for every non-empty key, icon_hash(key) =
\* (icon_hash(key without its last byte) * 31 + last byte) mod 2^32, the
\* overflow wrapping; and icon_hash("hello world") = 1794106052.
C7_HashRecurrence ==
    /\ key = <<>> => hash = U32Zero
    /\ key # <<>> => hash = Times31Plus(icon_str_hash(Front(key)), key[Len(key)])
    /\ key = HelloWorld => hash = U32Of(1794106052)

\* "hello world" has been hashed, and the last multiplication by 31 passed
\* 2^32, so the result is a wrapped one
C7_Witness ==
    /\ key = HelloWorld
    /\ hash = U32Of(1794106052)
    /\ icon_str_hash(Front(key))[1] * 31 >= Half

---------------------------------------------------------------------------
(* What the file format says of a buffer, read off the bytes without the   *)
(* decoder: the properties below compare the decoder to it.                *)

\* the null sentinels of an offset: 0 and 0xFFFFFFFF
Absent(v) == v = <<0, 0>> \/ v = <<HalfMax, HalfMax>>

\* offset + size <= buffer length
Room(b, v, size) == Small(v) /\ ToNat(v) + size <= Len(b)

HashOffset(b) == U32At(b, 4)

DirectoryListOffset(b) == U32At(b, 8)

\* a counted record at v lies inside the buffer: its count, then count
\* elements of elem bytes each
Fits(b, v, elem) ==
    /\ Room(b, v, 4)
    /\ Small(U32At(b, ToNat(v)))
    /\ ToNat(U32At(b, ToNat(v))) <= (Len(b) - ToNat(v) - 4) \div elem

DeclaredBuckets(b) == U32At(b, ToNat(HashOffset(b)))

\* header, hash table and directory list are what parsing is to accept
TopLevelValid(b) ==
    /\ Len(b) >= 12
    /\ U16At(b, 0) = 1
    /\ Fits(b, HashOffset(b), 4)
    /\ DeclaredBuckets(b) # <<0, 0>>
    /\ Fits(b, DirectoryListOffset(b), 4)

BucketSlot(b, i) == U32At(b, ToNat(HashOffset(b)) + 4 + 4 * i)

\* a nul byte at or after the offset
Terminated(b, v) ==
    Room(b, v, 1) /\ \E n \in ToNat(v)..(Len(b) - 1) : b[n + 1] = 0

\* the bytes of the nul-terminated string at v
StringAt(b, v) ==
    LET nul == CHOOSE n \in ToNat(v)..(Len(b) - 1) :
                   b[n + 1] = 0 /\ \A m \in ToNat(v)..(n - 1) : b[m + 1] # 0
    IN  [i \in 1..(nul - ToNat(v)) |-> b[ToNat(v) + i]]

RECURSIVE ChainEnds(_, _, _)
\* the chain from v is made of Icon records inside the buffer and reaches
\* a null offset without coming back to a record of seen or of its own
ChainEnds(b, v, seen) ==
    IF Absent(v) THEN TRUE
    ELSE /\ Room(b, v, 12)
         /\ ToNat(v) \notin seen
         /\ ChainEnds(b, U32At(b, ToNat(v)), seen \cup {ToNat(v)})

RECURSIVE Chain(_, _, _)
\* the Icon records of the chain from v, in chain order, each once
Chain(b, v, seen) ==
    IF Absent(v) \/ ~Room(b, v, 12) \/ ToNat(v) \in seen THEN <<>>
    ELSE <<ToNat(v)>> \o Chain(b, U32At(b, ToNat(v)), seen \cup {ToNat(v)})

ToSet(s) == {s[i] : i \in 1..Len(s)}

\* an ImageData block inside the buffer, each of its four offsets absent or
\* inside the buffer, the MetaData with room for its record
ImageDataValid(b, v) ==
    /\ Room(b, v, 16)
    /\ \A i \in 0..3 :
           LET f == U32At(b, ToNat(v) + 4 * i)
           IN  Absent(f) \/ Room(b, f, IF i = 1 THEN 12 ELSE 0)

\* an Image of a well-formed list: a directory the list declares, and image
\* data absent or valid
ImageValid(b, img) ==
    /\ U32Less(U32Of(U16At(b, img)), U32At(b, ToNat(DirectoryListOffset(b))))
    /\ Absent(U32At(b, img + 4)) \/ ImageDataValid(b, U32At(b, img + 4))

\* an Icon of a well-formed cache: a terminated name and an image list
\* that lies inside the buffer
IconValid(b, icon) ==
    /\ Terminated(b, U32At(b, icon + 4))
    /\ Fits(b, U32At(b, icon + 8), 8)
    /\ \A i \in 0..(ToNat(U32At(b, ToNat(U32At(b, icon + 8)))) - 1) :
           ImageValid(b, ToNat(U32At(b, icon + 8)) + 4 + 8 * i)

WellFormed(b) ==
    /\ TopLevelValid(b)
    /\ \A i \in 0..(ToNat(U32At(b, ToNat(DirectoryListOffset(b)))) - 1) :
           Terminated(b, U32At(b, ToNat(DirectoryListOffset(b)) + 4 + 4 * i))
    /\ \A i \in 0..(ToNat(DeclaredBuckets(b)) - 1) :
           /\ ChainEnds(b, BucketSlot(b, i), {})
           /\ \A icon \in ToSet(Chain(b, BucketSlot(b, i), {})) : IconValid(b, icon)

RECURSIVE icon_hash(_)
\* the hash of the format: h = h * 31 + p mod 2^32 over the bytes, from 0
icon_hash(name) ==
    IF name = <<>> THEN <<0, 0>>
    ELSE Times31Plus(icon_hash(Front(name)), name[Len(name)])

\* the Icon records of the bucket of name, in chain order
ChainOf(b, name) ==
    Chain(b, BucketSlot(b, ToNat(U32Rem(icon_hash(name), DeclaredBuckets(b)))), {})

HasName(b, icon, name) ==
    Terminated(b, U32At(b, icon + 4)) /\ StringAt(b, U32At(b, icon + 4)) = name

\* the Icon records of the bucket of name that are called name
Matches(b, name) == SelectSeq(ChainOf(b, name), LAMBDA icon : HasName(b, icon, name))

---------------------------------------------------------------------------
(* Properties of the cache (checked under Spec).                           *)

\* C1: on a well-formed cache a lookup does not abort, returns an entry
\* exactly when an Icon of the chain of bucket icon_hash(name) mod n_buckets
\* has the name looked up, and the entry returned is the first such Icon of
\* the chain: it carries the name asked for, resolved from that Icon's name
\* offset, and that Icon's image list.
C1_LookupFindsFirstMatch ==
    (call.op = "icon" /\ WellFormed(bytes)) =>
        /\ call.pc # "panic"
        /\ call.pc = "done" =>
            LET m == Matches(bytes, call.name)
            IN  /\ call.ret.some = (m # <<>>)
                /\ call.ret.some =>
                    /\ call.ret.v.name = call.name
                    /\ call.ret.v.name_off = ToNat(U32At(bytes, m[1] + 4))
                    /\ call.ret.v.image_list.off = ToNat(U32At(bytes, m[1] + 8))

\* a lookup on a well-formed cache has returned an Icon of a chain in which
\* a later Icon has the same name
C1_Witness ==
    /\ call.op = "icon"
    /\ call.pc = "done"
    /\ WellFormed(bytes)
    /\ call.ret.some
    /\ Len(Matches(bytes, call.name)) >= 2

\* C2: a lookup terminates on every buffer.  The walk is a function of the
\* immutable buffer, so a lookup that is handed an Icon it has already
\* compared goes round for ever; the claim is that this never happens: the
\* Icon a lookup under way is about to be given is one it has not visited.
C2_WalkNeverRevisits ==
    (call.op = "icon" /\ Busy /\ call.icon.some) => call.icon.v \notin call.visited

\* C3: once parsing has run on a buffer that holds a header, it has
\* returned an error whenever the hash offset or the directory-list offset
\* leaves no room for the record's 4-byte count inside the buffer.
C3_ParseRejectsBadOffsets ==
    (/\ cache.state # "Unparsed"
     /\ Len(bytes) >= 12
     /\ ~Room(bytes, HashOffset(bytes), 4) \/ ~Room(bytes, DirectoryListOffset(bytes), 4))
        => cache.state = "Err"

\* C4: in a parsed cache the n_buckets slots of the hash table and the
\* n_directories entries of the directory list lie inside the buffer, and
\* the slot of the bucket a lookup computes lies inside the buffer.
C4_ParsedCountsFit ==
    cache.state = "Ok" =>
        /\ Fits(bytes, HashOffset(bytes), 4)
        /\ Fits(bytes, DirectoryListOffset(bytes), 4)
        /\ (call.op = "icon" /\ call.bucket.some) =>
               /\ Small(call.bucket.v)
               /\ SlotAt(cache, ToNat(call.bucket.v)) + 4 <= Len(bytes)

\* C5: a parsed cache has a bucket count other than zero.
C5_ZeroBucketsRejected ==
    cache.state = "Ok" => n_buckets(bytes, cache) # <<0, 0>>

\* C6: once parsing has run on a buffer whose first two bytes decode to a
\* major version other than 1, it has returned an error.
C6_MajorVersionChecked ==
    (/\ cache.state # "Unparsed"
     /\ Len(bytes) >= 2
     /\ U16At(bytes, 0) # 1)
        => cache.state = "Err"

\* the slot of the bucket the call is at, when the hash table holds it
SlotOfCall == U32At(bytes, SlotAt(cache, ToNat(call.bucket.v)))

CallHasSlot == call.bucket.some /\ IndexOk(call.bucket.v, cache.hash.len)

\* C8: a lookup whose bucket slot is 0 or 0xFFFFFFFF is over at once with
\* nothing found and without an Icon resolved from the slot; an iteration
\* that comes to such a slot goes on to the next bucket with nothing
\* yielded and no Icon resolved; and in a lookup or an iteration the Icon
\* whose chain offset is 0xFFFFFFFF is the last one its chain gives.
C8_NullSentinels ==
    /\ []((call.op = "icon" /\ CallHasSlot /\ Absent(SlotOfCall)) =>
            (call.pc = "done" /\ ~call.ret.some /\ ~call.icon.some /\ call.visited = {}))
    /\ [][(/\ call.op = "iter" /\ Busy /\ ~call.icon.some
           /\ U32Less(call.bucket.v, n_buckets(bytes, cache))
           /\ CallHasSlot /\ Absent(SlotOfCall))
            => (/\ call'.pc = "walking"
                /\ ~call'.icon.some
                /\ call'.yielded = call.yielded
                /\ call'.bucket = Some(WrappingAdd(call.bucket.v, <<0, 1>>)))]_vars
    /\ [][(Busy /\ call.icon.some /\ U32At(bytes, call.icon.v) = <<HalfMax, HalfMax>>)
            => ~call'.icon.some]_vars

\* a lookup has ended on a bucket slot of 0xFFFFFFFF
C8_Witness ==
    /\ call.op = "icon"
    /\ call.pc = "done"
    /\ CallHasSlot
    /\ SlotOfCall = <<HalfMax, HalfMax>>

IsPrefix(s, t) == Len(s) <= Len(t) /\ s = SubSeq(t, 1, Len(s))

\* an Icon the iteration is to yield: its name is terminated and its image
\* list has room for its count
Decodable(b, icon) ==
    Terminated(b, U32At(b, icon + 4)) /\ Room(b, U32At(b, icon + 8), 4)

RECURSIVE Reachable(_, _)
\* the decodable Icon records of buckets i, i + 1, ..., in bucket order and
\* inside a bucket in chain order
Reachable(b, i) ==
    IF i >= ToNat(DeclaredBuckets(b)) THEN <<>>
    ELSE SelectSeq(Chain(b, BucketSlot(b, i), {}), LAMBDA icon : Decodable(b, icon))
         \o Reachable(b, i + 1)

\* the name and image list offsets of what the iteration has yielded
YieldedOffsets ==
    [i \in 1..Len(call.yielded) |->
        <<call.yielded[i].name_off, call.yielded[i].image_list.off>>]

ReachableOffsets(b) ==
    LET r == Reachable(b, 0)
    IN  [i \in 1..Len(r) |-> <<ToNat(U32At(b, r[i] + 4)), ToNat(U32At(b, r[i] + 8))>>]

\* C9: on a cache whose hash table lies inside the buffer the iteration
\* does not abort, what it has yielded so far is the beginning of the
\* decodable Icon records reachable from buckets 0, 1, ... in bucket and
\* chain order, and when it is over it has yielded all of them.
C9_IterYieldsReachable ==
    (call.op = "iter" /\ Fits(bytes, HashOffset(bytes), 4)) =>
        /\ call.pc # "panic"
        /\ IsPrefix(YieldedOffsets, ReachableOffsets(bytes))
        /\ call.pc = "done" => YieldedOffsets = ReachableOffsets(bytes)

\* C10: on a parsed cache whose header, hash table and directory list are
\* valid, no operation aborts: icon, iter, dir and image end with a value
\* or None whatever the records below hold.
C10_NoAbortAfterParse ==
    (cache.state = "Ok" /\ TopLevelValid(bytes)) => call.pc # "panic"

\* the image_data offset of image idx of the list at offset list
ImageDataOffset(b, list, idx) == U32At(b, list + 4 + 8 * ToNat(idx) + 4)

\* the image_meta_data offset of the ImageData block at v
MetaDataOffset(b, v) == U32At(b, ToNat(v) + 4)

\* the directory of image idx of the list at offset list is one the
\* directory list declares, and its path is a terminated UTF-8 string
ImageDirectoryValid(b, list, idx) ==
    LET index == U32Of(U16At(b, list + 4 + 8 * ToNat(idx)))
        entry == U32At(b, ToNat(DirectoryListOffset(b)) + 4 + 4 * ToNat(index))
    IN  /\ U32Less(index, U32At(b, ToNat(DirectoryListOffset(b))))
        /\ Terminated(b, entry)
        /\ ValidUtf8(StringAt(b, entry), 1)

\* image(idx) is being called on the list of a found Icon of a well-formed
\* cache, with idx below the declared image count
ImageStep ==
    /\ call.op = "icon"
    /\ call.pc = "done"
    /\ call.ret.some
    /\ call'.op = "image"
    /\ WellFormed(bytes)
    /\ U32Less(call'.idx, U32At(bytes, call.ret.v.image_list.off))
    /\ ImageDirectoryValid(bytes, call.ret.v.image_list.off, call'.idx)

\* C11: image(idx), for idx below the declared image count, returns an
\* Image; its image data is present exactly when the image's data offset is
\* neither 0 nor 0xFFFFFFFF, so an Image with either sentinel is returned
\* with no image data; and a null metadata offset inside a present image
\* data block is not resolved (the ImageData result always holds a resolved
\* MetaData, so none may be produced from a null metadata offset) and does
\* not make the Image disappear or the call abort.
C11_ImageDataOptional ==
    [][ImageStep =>
         LET v == ImageDataOffset(bytes, call.ret.v.image_list.off, call'.idx)
         IN  /\ Absent(v) =>
                 /\ call'.pc = "done"
                 /\ call'.ret.some
                 /\ ~call'.ret.v.image_data.some
             /\ (call'.pc = "done" /\ call'.ret.some /\ call'.ret.v.image_data.some)
                    => ~Absent(v)
             /\ (~Absent(v) /\ Absent(MetaDataOffset(bytes, v))) =>
                 /\ call'.pc = "done"
                 /\ call'.ret.some
                 /\ ~call'.ret.v.image_data.some]_vars

\* C11, first sentinel: an Image whose data offset is 0 is returned with no
\* image data
C11_ZeroDataOffset ==
    [][(ImageStep /\ ImageDataOffset(bytes, call.ret.v.image_list.off, call'.idx) = U32Zero)
         => (call'.pc = "done" /\ call'.ret.some /\ ~call'.ret.v.image_data.some)]_vars

\* C11, second sentinel: an Image whose data offset is 0xFFFFFFFF is returned
\* with no image data
C11_MaxDataOffset ==
    [][(ImageStep /\ ImageDataOffset(bytes, call.ret.v.image_list.off, call'.idx) = U32Max)
         => (call'.pc = "done" /\ call'.ret.some /\ ~call'.ret.v.image_data.some)]_vars

\* C11, metadata: a present image data block with a null metadata offset does
\* not abort the call nor make the Image disappear
C11_NullMetaDataKeepsImage ==
    [][(ImageStep
        /\ ~Absent(ImageDataOffset(bytes, call.ret.v.image_list.off, call'.idx))
        /\ Absent(MetaDataOffset(bytes,
               ImageDataOffset(bytes, call.ret.v.image_list.off, call'.idx))))
         => (call'.pc = "done" /\ call'.ret.some)]_vars

\* C11, metadata: no MetaData is resolved from a null metadata offset
C11_NullMetaDataNotResolved ==
    [][(ImageStep
        /\ ~Absent(ImageDataOffset(bytes, call.ret.v.image_list.off, call'.idx))
        /\ Absent(MetaDataOffset(bytes,
               ImageDataOffset(bytes, call.ret.v.image_list.off, call'.idx))))
         => ~(call'.pc = "done" /\ call'.ret.some /\ call'.ret.v.image_data.some)]_vars

\* C11, converse: image data is present only for a non-null data offset
C11_DataOnlyIfNonNull ==
    [][(ImageStep /\ call'.pc = "done" /\ call'.ret.some /\ call'.ret.v.image_data.some)
         => ~Absent(ImageDataOffset(bytes, call.ret.v.image_list.off, call'.idx))]_vars

===========================================================================
